---------------------------- MODULE Spec2Model ----------------------------
(***************************************************************************)
(* YouTube Audio Normalizer, content script.                               *)
(*                                                                         *)
(* The model follows the content script's module state (settings, audio    *)
(* context, node set, current video, metering interval, auto-gain value,   *)
(* loudness window), the Store it loads from and saves to, the Web Audio   *)
(* connections its nodes hold, and one action per handler: the completion  *)
(* of the initial load, tryAttach, the canplay listener, the interval      *)
(* callback and the five message types.                                    *)
(*                                                                         *)
(* JavaScript objects are functions from key strings to values;            *)
(* Object.assign and object spread are the field-wise override Assign.     *)
(* Levels in dB are integers in hundredths of a dB where the code does     *)
(* arithmetic on them (auto-gain), and plain integers in the settings.     *)
(***************************************************************************)
EXTENDS Integers, Sequences, FiniteSets, TLC

VARIABLES
    settings,       \* let settings
    store,          \* chrome.storage.sync 'normalizerSettings' (NoRecord when unset)
    loadRes,        \* result the pending storage.get will deliver
    loaded,         \* TRUE once init's await loadSettings() has resumed
    audioCtx,       \* TRUE iff audioCtx is a live AudioContext (null otherwise)
    nodes,          \* graph the `nodes` object holds (NoNodes when {})
    currentVideo,   \* let currentVideo
    claimed,        \* media elements that already own a MediaElementAudioSourceNode
    pending,        \* videos with a registered once-only canplay listener
    conn,           \* Web Audio connections, a set of <<from, to>> node pairs
    params,         \* AudioParam values of the nodes in `nodes`
    metering,       \* let metering (interval id, NoTimer when null)
    timers,         \* interval ids that are scheduled
    autoGainValue,  \* let autoGainValue (hundredths of a dB)
    rmsHistory,     \* let rmsHistory (hundredths of a dB)
    levels,         \* let levels (inputRMS, hundredths of a dB)
    nticks,         \* interval callbacks run so far (bounds the exploration)
    outcome         \* how the handler that ran last ended

vars == <<settings, store, loadRes, loaded, audioCtx, nodes, currentVideo,
          claimed, pending, conn, params, metering, timers, autoGainValue,
          rmsHistory, levels, nticks, outcome>>

graphVars == <<audioCtx, nodes, currentVideo, claimed, conn, params, metering,
               timers, autoGainValue, rmsHistory>>

----------------------------------------------------------------------------
(* Bounds *)

MaxTicks == 1

----------------------------------------------------------------------------
(* Constants of the program *)

PRESETS ==
    [ light  |-> [ threshold |-> -18, ratio |-> 2, knee |-> 20, attack |-> 10,
                   release |-> 300, makeupGain |-> 2, autoGain |-> TRUE,
                   targetLevel |-> -16 ],
      medium |-> [ threshold |-> -24, ratio |-> 4, knee |-> 10, attack |-> 3,
                   release |-> 250, makeupGain |-> 6, autoGain |-> TRUE,
                   targetLevel |-> -14 ],
      heavy  |-> [ threshold |-> -35, ratio |-> 10, knee |-> 5, attack |-> 1,
                   release |-> 150, makeupGain |-> 12, autoGain |-> TRUE,
                   targetLevel |-> -11 ] ]

DEFAULT_SETTINGS ==
    [ enabled |-> TRUE, preset |-> "medium", autoGain |-> TRUE,
      targetLevel |-> -14, threshold |-> -24, ratio |-> 4, knee |-> 10,
      attack |-> 3, release |-> 250, makeupGain |-> 6, preGain |-> 0,
      limiterThreshold |-> -1 ]

RMS_HISTORY_LEN == 20

\* Property names every object literal inherits from Object.prototype: a
\* lookup PRESETS[name] with one of these names yields a (truthy) inherited
\* value that has no own enumerable properties.
ObjectPrototypeKeys == {"constructor", "toString", "valueOf", "hasOwnProperty"}

\* -Infinity, the initial levels.inputRMS: below every level a tick can read
NegInfinity == -1000000

NoRecord == [absent |-> TRUE]
NoNodes  == "none"
NoVideo  == "none"
NoTimer  == "none"

----------------------------------------------------------------------------
(* Helpers *)

\* Object.assign(target, src) / { ...target, ...src }
Assign(target, src) ==
    [k \in (DOMAIN target) \cup (DOMAIN src) |->
        IF k \in DOMAIN src THEN src[k] ELSE target[k]]

Has(obj, k) == k \in DOMAIN obj

\* PRESETS[name] is truthy
PresetTruthy(name) == name \in (DOMAIN PRESETS) \cup ObjectPrototypeKeys

\* own enumerable properties of PRESETS[name], as Object.assign copies them
PresetProps(name) ==
    IF name \in DOMAIN PRESETS THEN PRESETS[name] ELSE [k \in {} |-> TRUE]

\* 10^(dB/20), kept as the exponent it is computed from: the map is
\* injective, so two linear gains are equal iff their dB arguments are.
dBtoLinear(dB) == <<"10^(dB/20)", dB>>

\* value / 1000 (ms to s), kept as the exact rational
msToSeconds(ms) == <<ms, 1000>>

----------------------------------------------------------------------------
(* Inputs *)

\* media elements the page can present
Videos == {"v1", "v2"}

\* what findVideo() can return: a video and whether its readyState >= 2
\* (NoVideo when the page has none)
Found == {<<"v1", TRUE>>, <<"v1", FALSE>>, <<"v2", TRUE>>}

\* msg.preset of applyPreset messages
PresetNames == {"light", "medium", "heavy", "bogus", "constructor"}

\* msg.settings of updateSettings messages
Partials ==
    [ off        |-> [enabled |-> FALSE],
      on         |-> [enabled |-> TRUE],
      slider     |-> [threshold |-> -30, preGain |-> 5, limiterThreshold |-> -3,
                      preset |-> "custom"],
      agcOff     |-> [autoGain |-> FALSE],
      heavyFull  |-> Assign(PRESETS.heavy, [preset |-> "heavy"]),
      bogus      |-> [preset |-> "bogus", threshold |-> -30] ]

\* input loudness the source presents to the input tap, hundredths of a dB
Signals == {-6603, -2400}

\* media elements another script has already attached a source node to
\* when this one starts
InitiallyClaimed == {{}, {"v1"}}

\* records a previous session or the installer left in the Store
InstalledRecord == DEFAULT_SETTINGS

----------------------------------------------------------------------------
(* Signal graph *)

Stages == {"source", "inputAnalyser", "preGain", "autoGain", "compressor",
           "makeupGain", "limiter", "outputAnalyser"}

Node(g, stage) == <<g, stage>>

Destination == <<"audioCtx", "destination">>

\* Object.values(nodes).forEach(n => n.disconnect())
disconnectAll(c, g) == {e \in c : e[1][1] # g}

connectProcessing(c, g) ==
    disconnectAll(c, g) \cup
        { <<Node(g, "source"), Node(g, "inputAnalyser")>>,
          <<Node(g, "inputAnalyser"), Node(g, "preGain")>>,
          <<Node(g, "preGain"), Node(g, "autoGain")>>,
          <<Node(g, "autoGain"), Node(g, "compressor")>>,
          <<Node(g, "compressor"), Node(g, "makeupGain")>>,
          <<Node(g, "makeupGain"), Node(g, "limiter")>>,
          <<Node(g, "limiter"), Node(g, "outputAnalyser")>>,
          <<Node(g, "outputAnalyser"), Destination>> }

\* connectBypass without the disconnectAll
connectBypassNoTeardown(c, g) == c \cup { <<Node(g, "source"), Destination>> }

connectBypass(c, g) ==
    disconnectAll(c, g) \cup { <<Node(g, "source"), Destination>> }

\* routing that ignores the flag
RouteAlwaysProcessing(c, g, flag) == connectProcessing(c, g)

\* `if (flag) connectProcessing(); else connectBypass();`
Route(c, g, flag) == IF flag THEN connectProcessing(c, g) ELSE connectBypass(c, g)

\* connectProcessing / connectBypass dereference nodes.source: with
\* nodes = {} the call source.connect(...) raises a TypeError
RouteThrows == nodes = NoNodes

Unity == dBtoLinear(0)

\* AppliedParams that leaves the limiter at the threshold buildGraph gave it
AppliedParamsFixedLimiter(s, target) ==
    [ threshold        |-> s.threshold,
      ratio            |-> s.ratio,
      knee             |-> s.knee,
      attack           |-> msToSeconds(s.attack),
      release          |-> msToSeconds(s.release),
      makeupGain       |-> dBtoLinear(s.makeupGain * 100),
      preGain          |-> dBtoLinear(s.preGain * 100),
      limiterThreshold |-> -1,
      autoGainTarget   |-> IF ~s.autoGain THEN Unity ELSE target ]

\* applySettingsToNodes: the AudioParam values it writes; `target` is the
\* value the auto-gain stage is currently steered to
AppliedParams(s, target) ==
    [ threshold        |-> s.threshold,
      ratio            |-> s.ratio,
      knee             |-> s.knee,
      attack           |-> msToSeconds(s.attack),
      release          |-> msToSeconds(s.release),
      makeupGain       |-> dBtoLinear(s.makeupGain * 100),
      preGain          |-> dBtoLinear(s.preGain * 100),
      limiterThreshold |-> s.limiterThreshold,
      autoGainTarget   |-> IF ~s.autoGain THEN Unity ELSE target ]

NoParams == [absent |-> TRUE]

\* applySettingsToNodes as run by the message handlers, on settings s
applySettingsToNodes(s) ==
    IF nodes = NoNodes
    THEN UNCHANGED <<params, autoGainValue>>
    ELSE /\ params' = AppliedParams(s, params.autoGainTarget)
         /\ autoGainValue' = IF ~s.autoGain THEN 0 ELSE autoGainValue

\* startMetering without the clearInterval
StartedTimersNoClear(ts, m, v) == ts \cup {v}

\* startMetering: `if (metering) clearInterval(metering)`, then the interval
\* ids scheduled once setInterval has returned id v
StartedTimers(ts, m, v) == (ts \ {m}) \cup {v}

\* getState: isActive
IsActive == audioCtx /\ nodes # NoNodes

\* how buildGraph(v) ends: "done" at the early return for the video already
\* wired, "failed" at the return from the inner catch, "built" at the end
BuildOutcome(v) ==
    IF currentVideo = v /\ audioCtx THEN "done"
    ELSE IF v \in claimed THEN "failed"
    ELSE "built"

\* buildGraph whose startMetering keeps the window and the gain of the graph
\* before
buildGraphKeepsWindow(s, v) ==
    IF currentVideo = v /\ audioCtx
    THEN UNCHANGED graphVars
    ELSE /\ currentVideo' = v
         /\ audioCtx' = TRUE
         /\ IF v \in claimed
            THEN UNCHANGED <<nodes, claimed, conn, params, metering, timers,
                             autoGainValue, rmsHistory>>
            ELSE /\ claimed' = claimed \cup {v}
                 /\ nodes' = v
                 /\ params' = AppliedParams(s, Unity)
                 /\ conn' = Route(conn, v, s.enabled)
                 /\ timers' = StartedTimers(timers, metering, v)
                 /\ metering' = v
                 /\ UNCHANGED <<autoGainValue, rmsHistory>>

\* buildGraph that restarts the metering when called for the video already
\* wired
buildGraphRestartsMetering(s, v) ==
    IF currentVideo = v /\ audioCtx
    THEN /\ rmsHistory' = <<>>
         /\ autoGainValue' = 0
         /\ UNCHANGED <<audioCtx, nodes, currentVideo, claimed, conn, params,
                        metering, timers>>
    ELSE /\ currentVideo' = v
         /\ audioCtx' = TRUE
         /\ IF v \in claimed
            THEN UNCHANGED <<nodes, claimed, conn, params, metering, timers,
                             autoGainValue, rmsHistory>>
            ELSE /\ claimed' = claimed \cup {v}
                 /\ nodes' = v
                 /\ params' = AppliedParams(s, Unity)
                 /\ conn' = Route(conn, v, s.enabled)
                 /\ timers' = StartedTimers(timers, metering, v)
                 /\ metering' = v
                 /\ rmsHistory' = <<>>
                 /\ autoGainValue' = 0

\* buildGraph(video), run with settings s
buildGraph(s, v) ==
    IF currentVideo = v /\ audioCtx
    THEN UNCHANGED graphVars
    ELSE /\ currentVideo' = v
         /\ audioCtx' = TRUE
         /\ IF v \in claimed
            THEN \* createMediaElementSource throws: warn and return
                 UNCHANGED <<nodes, claimed, conn, params, metering, timers,
                             autoGainValue, rmsHistory>>
            ELSE /\ claimed' = claimed \cup {v}
                 /\ nodes' = v
                 /\ params' = AppliedParams(s, Unity)
                 /\ conn' = Route(conn, v, s.enabled)
                 \* startMetering
                 /\ timers' = StartedTimers(timers, metering, v)
                 /\ metering' = v
                 /\ rmsHistory' = <<>>
                 /\ autoGainValue' = 0

TryAttachOutcome(v, ready) ==
    IF v = NoVideo \/ v = currentVideo THEN "done"
    ELSE IF ready THEN BuildOutcome(v)
    ELSE "done"

\* tryAttach(), findVideo() returning v with readyState >= 2 iff ready
tryAttach(s, v, ready) ==
    IF v = NoVideo \/ v = currentVideo
    THEN UNCHANGED <<graphVars, pending>>
    ELSE IF ready
         THEN buildGraph(s, v) /\ UNCHANGED pending
         ELSE pending' = pending \cup {v} /\ UNCHANGED graphVars

----------------------------------------------------------------------------
(* Parameter bank *)

\* MergeUpdate with the preset comparison made against the settings before
\* the merge, in both branches
MergeUpdateStaleCompare(s, incoming) ==
    LET m == IF /\ Has(incoming, "preset")
                /\ incoming.preset # ""
                /\ incoming.preset # "custom"
                /\ PresetTruthy(incoming.preset)
             THEN Assign(Assign(s, incoming), PresetProps(incoming.preset))
             ELSE Assign(s, incoming)
    IN  IF ~Has(incoming, "preset") \/ incoming.preset # s.preset
        THEN [m EXCEPT !["preset"] = "custom"]
        ELSE m

\* MergeUpdate that, for a partial without a preset field, turns to 'custom'
\* only when a value other than enabled differs from the current one
MergeUpdateCustomOnChange(s, incoming) ==
    IF /\ Has(incoming, "preset")
       /\ incoming.preset # ""
       /\ incoming.preset # "custom"
       /\ PresetTruthy(incoming.preset)
    THEN Assign(Assign(s, incoming), PresetProps(incoming.preset))
    ELSE LET m == Assign(s, incoming) IN
         IF \/ Has(incoming, "preset") /\ incoming.preset # m.preset
            \/ /\ ~Has(incoming, "preset")
               /\ \E k \in DOMAIN incoming \ {"enabled"} : incoming[k] # s[k]
         THEN [m EXCEPT !["preset"] = "custom"]
         ELSE m

\* case 'updateSettings': the merge of msg.settings into settings
MergeUpdate(s, incoming) ==
    IF /\ Has(incoming, "preset")
       /\ incoming.preset # ""
       /\ incoming.preset # "custom"
       /\ PresetTruthy(incoming.preset)
    THEN Assign(Assign(s, incoming), PresetProps(incoming.preset))
    ELSE LET m == Assign(s, incoming) IN
         IF ~Has(incoming, "preset") \/ incoming.preset # m.preset
         THEN [m EXCEPT !["preset"] = "custom"]
         ELSE m

\* MergePreset without the forced enabled: true
MergePresetKeepEnabled(s, name) ==
    Assign(Assign(s, PresetProps(name)), [preset |-> name])

\* case 'applyPreset': Object.assign(settings, p, {preset, enabled: true})
MergePreset(s, name) ==
    Assign(Assign(s, PresetProps(name)), [preset |-> name, enabled |-> TRUE])

\* a reset that keeps the current on/off switch
ResetRecordKeepEnabled == [DEFAULT_SETTINGS EXCEPT !.enabled = settings.enabled]

\* case 'resetSettings': settings = { ...DEFAULT_SETTINGS }
ResetRecord == DEFAULT_SETTINGS

----------------------------------------------------------------------------
(* Initial state: the script has run to the end of its top level; init() is *)
(* suspended in `await loadSettings()` with the storage.get in flight.      *)

InitialStores ==
    { NoRecord,
      InstalledRecord,
      MergeUpdate(DEFAULT_SETTINGS, Partials.off) }

Init ==
    /\ settings = DEFAULT_SETTINGS
    /\ store \in InitialStores
    /\ loadRes = store
    /\ loaded = FALSE
    /\ audioCtx = FALSE
    /\ nodes = NoNodes
    /\ currentVideo = NoVideo
    /\ claimed \in InitiallyClaimed
    /\ pending = {}
    /\ conn = {}
    /\ params = NoParams
    /\ metering = NoTimer
    /\ timers = {}
    /\ autoGainValue = 0
    /\ rmsHistory = <<>>
    /\ levels = [inputRMS |-> NegInfinity]
    /\ nticks = 0
    /\ outcome = "done"

----------------------------------------------------------------------------
(* Handlers.  outcome records how the handler ended: "done" (it ran to its  *)
(* end, which for a message handler is its sendResponse), "threw" (an      *)
(* uncaught exception ended it before sendResponse), and for the handlers  *)
(* that reach buildGraph "built" or "failed".                              *)

\* the storage.get callback of loadSettings, and init() resuming after the
\* await: tryAttach(), observe(), resumeOnGesture()
LoadDone(v, ready) ==
    /\ ~loaded
    /\ loaded' = TRUE
    /\ settings' = IF loadRes # NoRecord
                   THEN Assign(DEFAULT_SETTINGS, loadRes)
                   ELSE settings
    /\ loadRes' = NoRecord
    /\ tryAttach(settings', v, ready)
    /\ outcome' = TryAttachOutcome(v, ready)
    /\ UNCHANGED <<store, levels, nticks>>

\* tryAttach from yt-navigate-finish, popstate, the MutationObserver or the
\* 3 s poll; all are registered by observe(), after the load
TryAttach(v, ready) ==
    /\ loaded
    /\ tryAttach(settings, v, ready)
    /\ outcome' = TryAttachOutcome(v, ready)
    /\ UNCHANGED <<settings, store, loadRes, loaded, levels, nticks>>

\* the once-only canplay listener tryAttach registered on v
CanPlay(v) ==
    /\ v \in pending
    /\ pending' = pending \ {v}
    /\ buildGraph(settings, v)
    /\ outcome' = BuildOutcome(v)
    /\ UNCHANGED <<settings, store, loadRes, loaded, levels, nticks>>

GetState ==
    /\ outcome' = "done"
    /\ UNCHANGED <<settings, store, loadRes, loaded, graphVars, pending,
                   levels, nticks>>

\* case 'updateSettings' with msg.settings = incoming
UpdateSettingsWith(incoming) ==
    LET s == MergeUpdate(settings, incoming)
        routes == Has(incoming, "enabled")
    IN  /\ settings' = s
        /\ store' = s
        /\ applySettingsToNodes(s)
        /\ IF routes /\ ~RouteThrows
           THEN conn' = Route(conn, nodes, incoming.enabled)
           ELSE UNCHANGED conn
        /\ outcome' = IF routes /\ RouteThrows THEN "threw" ELSE "done"
        /\ UNCHANGED <<loadRes, loaded, audioCtx, nodes, currentVideo, claimed,
                       pending, metering, timers, rmsHistory, levels, nticks>>

UpdateSettings(pn) == UpdateSettingsWith(Partials[pn])

ApplyPreset(name) ==
    IF PresetTruthy(name)
    THEN LET s == MergePreset(settings, name) IN
         /\ settings' = s
         /\ store' = s
         /\ applySettingsToNodes(s)
         /\ IF ~RouteThrows
            THEN conn' = connectProcessing(conn, nodes)
            ELSE UNCHANGED conn
         /\ outcome' = IF RouteThrows THEN "threw" ELSE "done"
         /\ UNCHANGED <<loadRes, loaded, audioCtx, nodes, currentVideo, claimed,
                        pending, metering, timers, rmsHistory, levels, nticks>>
    ELSE /\ outcome' = "done"
         /\ UNCHANGED <<settings, store, loadRes, loaded, graphVars, pending,
                        levels, nticks>>

ResetSettings ==
    LET s == ResetRecord IN
    /\ settings' = s
    /\ store' = s
    /\ applySettingsToNodes(s)
    /\ IF ~RouteThrows
       THEN conn' = Route(conn, nodes, s.enabled)
       ELSE UNCHANGED conn
    /\ outcome' = IF RouteThrows THEN "threw" ELSE "done"
    /\ UNCHANGED <<loadRes, loaded, audioCtx, nodes, currentVideo, claimed,
                   pending, metering, timers, rmsHistory, levels, nticks>>

\* default: sendResponse({ error: 'unknown message type' })
UnknownMessage ==
    /\ outcome' = "done"
    /\ UNCHANGED <<settings, store, loadRes, loaded, graphVars, pending,
                   levels, nticks>>

----------------------------------------------------------------------------
(* Metering and auto-gain *)

RECURSIVE Sum(_)
Sum(h) == IF h = <<>> THEN 0 ELSE Head(h) + Sum(Tail(h))

\* linearToDB(0) = 20 * log10(1e-10), the reading of an unwired analyser
ZerosDB == -20000

\* a silence floor ten times lower, inRMS > 0.00005
AboveLowerFloor(cdB) == cdB >= -8602

\* inRMS > 0.0005, on the level in hundredths of a dB:
\* 20 * log10(0.0005) = -66.0206
AboveSilenceFloor(cdB) == cdB >= -6602

\* rmsHistory.push(x); if (rmsHistory.length > RMS_HISTORY_LEN) rmsHistory.shift()
Push(h, x) ==
    LET h1 == Append(h, x) IN IF Len(h1) > RMS_HISTORY_LEN THEN Tail(h1) ELSE h1

\* no clamp
Unclamped(x) == x

Clamp(x) == IF x < -2400 THEN -2400 ELSE IF x > 2400 THEN 2400 ELSE x

\* Smoothed with the correction subtracted
SmoothedAway(s, h, value) ==
    LET avgDB == Sum(h) \div Len(h)
        desired == s.targetLevel * 100 - avgDB
    IN  Clamp(value - ((desired - value) * 8) \div 100)

\* autoGainValue after one auto-gain update with window h
Smoothed(s, h, value) ==
    LET avgDB == Sum(h) \div Len(h)
        desired == s.targetLevel * 100 - avgDB
    IN  Clamp(value + ((desired - value) * 8) \div 100)

\* the setInterval callback, the source presenting loudness sig
TickBody(sig) ==
    /\ timers # {}
    /\ nticks' = nticks + 1
    /\ LET inDB == IF <<Node(nodes, "source"), Node(nodes, "inputAnalyser")>> \in conn
                   THEN sig ELSE ZerosDB
       IN  /\ levels' = [inputRMS |-> inDB]
           /\ IF settings.enabled /\ settings.autoGain /\ AboveSilenceFloor(inDB)
              THEN /\ rmsHistory' = Push(rmsHistory, inDB)
                   /\ autoGainValue' = Smoothed(settings, rmsHistory', autoGainValue)
                   /\ params' = [params EXCEPT !.autoGainTarget = dBtoLinear(autoGainValue')]
              ELSE UNCHANGED <<rmsHistory, autoGainValue, params>>
    /\ outcome' = "done"
    /\ UNCHANGED <<settings, store, loadRes, loaded, audioCtx, nodes,
                   currentVideo, claimed, pending, conn, metering, timers>>

Tick(sig) == nticks < MaxTicks /\ TickBody(sig)

----------------------------------------------------------------------------

Next ==
    \/ \E f \in Found \cup {<<NoVideo, FALSE>>} : LoadDone(f[1], f[2])
    \/ \E f \in Found : TryAttach(f[1], f[2])
    \/ \E v \in Videos : CanPlay(v)
    \/ GetState
    \/ \E pn \in DOMAIN Partials : UpdateSettings(pn)
    \/ \E name \in PresetNames : ApplyPreset(name)
    \/ ResetSettings
    \/ UnknownMessage
    \/ \E sig \in Signals : Tick(sig)

Spec == Init /\ [][Next]_vars

----------------------------------------------------------------------------
(* The auto-gain loop over a long run.  The settings and the graph are set  *)
(* up before the first tick; from then on the 100 ms interval fires with    *)
(* the source holding one loudness, 10 dB under the target level.           *)

MaxRunTicks == 60

KnownPresetNames == {"light", "medium", "heavy"}

Setup ==
    /\ nticks = 0
    /\ \/ \E f \in Found \cup {<<NoVideo, FALSE>>} : LoadDone(f[1], f[2])
       \/ \E f \in Found : TryAttach(f[1], f[2])
       \/ \E name \in KnownPresetNames : ApplyPreset(name)

\* the interval callback with the input 10 dB under settings.targetLevel
ConstantInputTick ==
    /\ nticks < MaxRunTicks
    /\ settings.enabled /\ settings.autoGain
    /\ TickBody(settings.targetLevel * 100 - 1000)

NextConstantInput == Setup \/ ConstantInputTick

\* setInterval keeps firing the callback for as long as it is scheduled
SpecConstantInput ==
    Init /\ [][NextConstantInput]_vars /\ WF_vars(ConstantInputTick)

----------------------------------------------------------------------------
(* The popup driving the session.  Its controls show the settings it read   *)
(* with getState, and every toggle or slider sends the whole record of      *)
(* control values with updateSettings.                                      *)

\* the fields pushSettings always sends
PopupFields == {"enabled", "autoGain", "targetLevel", "threshold", "ratio",
                "knee", "attack", "release", "makeupGain", "preGain"}

\* pushSettings(extra) with the controls showing settings s
pushSettings(s, extra) == Assign([k \in PopupFields |-> s[k]], extra)

\* the enable toggle's change listener
PopupToggleEnabled ==
    UpdateSettingsWith(pushSettings(settings, [enabled |-> ~settings.enabled]))

\* the auto-gain toggle's change listener
PopupToggleAutoGain ==
    UpdateSettingsWith(pushSettings(settings, [autoGain |-> ~settings.autoGain]))

\* partials that carry no preset field and only some of the fields
BarePartials == {"off", "on", "agcOff"}

NextPopup ==
    \/ \E f \in Found \cup {<<NoVideo, FALSE>>} : LoadDone(f[1], f[2])
    \/ \E f \in Found : TryAttach(f[1], f[2])
    \/ \E name \in KnownPresetNames : ApplyPreset(name)
    \/ ResetSettings
    \/ \E pn \in BarePartials : UpdateSettings(pn)
    \/ PopupToggleEnabled
    \/ PopupToggleAutoGain

SpecPopup == Init /\ [][NextPopup]_vars

----------------------------------------------------------------------------
(* The auto-gain loop under arbitrary input and settings: binds, the        *)
(* commands that bear on the auto-gain, target levels far outside the       *)
(* popup's slider range, and ticks at the loudest and the quietest input    *)
(* that passes the silence floor.                                           *)

MaxAgcTicks == 2

\* msg.settings with targetLevel outside the documented -24..-6 dB
OutOfRange == { [targetLevel |-> 300], [targetLevel |-> -400] }

\* 0 dB full scale, and a level just above the silence floor
AgcSignals == {0, -6600}

AgcTick(sig) == nticks < MaxAgcTicks /\ TickBody(sig)

NextAgc ==
    \/ \E f \in Found \cup {<<NoVideo, FALSE>>} : LoadDone(f[1], f[2])
    \/ \E f \in Found : TryAttach(f[1], f[2])
    \/ \E incoming \in OutOfRange : UpdateSettingsWith(incoming)
    \/ UpdateSettings("agcOff")
    \/ ApplyPreset("heavy")
    \/ ResetSettings
    \/ \E sig \in AgcSignals : AgcTick(sig)

SpecAgc == Init /\ [][NextAgc]_vars

----------------------------------------------------------------------------
(* Properties *)

KnownPresets == {"light", "medium", "heavy"}

\* the fields a preset tuple carries
TupleFields == {"threshold", "ratio", "knee", "attack", "release",
                "makeupGain", "autoGain", "targetLevel"}

\* the fields the settings invariant of the data model names
InvariantFields == TupleFields \ {"makeupGain"}

\* C1: after applyPreset(name) with name light, medium or heavy, the settings
\* carry that preset's tuple in threshold, ratio, knee, attack, release,
\* makeupGain, autoGain and targetLevel, preset is name and enabled is true,
\* while preGain and limiterThreshold keep the values they had before.
C1_ApplyPresetYieldsTuple ==
    [][\A name \in KnownPresets :
          ApplyPreset(name) =>
            /\ \A k \in TupleFields : settings'[k] = PRESETS[name][k]
            /\ settings'.preset = name
            /\ settings'.enabled = TRUE
            /\ settings'.preGain = settings.preGain
            /\ settings'.limiterThreshold = settings.limiterThreshold
            /\ DOMAIN settings' = DOMAIN settings]_vars

\* a preset was applied over changed pre-gain and limiter threshold
C1_Witness ==
    /\ outcome = "done"
    /\ store = settings
    /\ nodes # NoNodes
    /\ settings.preset = "heavy"
    /\ settings.threshold = -35
    /\ settings.enabled
    /\ settings.preGain = 5
    /\ settings.limiterThreshold = -3

\* C2: resetSettings yields exactly the documented default record from every
\* prior state; a resetSettings that follows a resetSettings starts from that
\* record and so yields the same settings as the first.
C2_ResetYieldsDefaults ==
    [][ResetSettings =>
          settings' = [ enabled |-> TRUE, preset |-> "medium",
                        autoGain |-> TRUE, targetLevel |-> -14,
                        threshold |-> -24, ratio |-> 4, knee |-> 10,
                        attack |-> 3, release |-> 250, makeupGain |-> 6,
                        preGain |-> 0, limiterThreshold |-> -1 ]]_vars

\* the state a reset leaves while a graph is bound: the defaults in force,
\* written to the Store, applied to the stages and routed for processing
C2_Witness ==
    /\ outcome = "done"
    /\ loaded
    /\ nodes # NoNodes
    /\ settings = DEFAULT_SETTINGS
    /\ store = settings
    /\ params.preGain = dBtoLinear(0)
    /\ <<Node(nodes, "outputAnalyser"), Destination>> \in conn

\* C3: whenever settings.preset is not 'custom' it names light, medium or
\* heavy and threshold, ratio, knee, attack, release, autoGain and targetLevel
\* equal that preset's table values.
C3_PresetInvariant ==
    settings.preset # "custom" =>
        /\ settings.preset \in KnownPresets
        /\ \A k \in InvariantFields : settings[k] = PRESETS[settings.preset][k]

\* the value a tunable field is compared with: the active preset's table
\* value, or the current value when no known preset is active
ActiveValue(s, k) ==
    IF s.preset \in KnownPresets /\ k \in TupleFields
    THEN PRESETS[s.preset][k] ELSE s[k]

TunableFields == TupleFields \cup {"preGain"}

ChangesTunable(s, incoming) ==
    \E k \in TunableFields : Has(incoming, k) /\ incoming[k] # ActiveValue(s, k)

SuppliesKnownPreset(incoming) ==
    Has(incoming, "preset") /\ incoming.preset \in KnownPresets

\* C4: an updateSettings whose partial changes a tunable field to a value
\* different from the active preset's and supplies no known preset name (no
\* preset field, 'custom', or any other name) results in preset 'custom'.
C4_EditForcesCustom ==
    [][\A pn \in DOMAIN Partials :
          ( /\ ~SuppliesKnownPreset(Partials[pn])
            /\ ChangesTunable(settings, Partials[pn])
            /\ UpdateSettings(pn) )
          => settings'.preset = "custom"]_vars

\* C5: an updateSettings whose partial names a known preset and carries
\* exactly that preset's tuple in its tunable fields results in that preset
\* name, from every prior state.
C5_MatchingPresetKeepsName ==
    [][\A pn \in DOMAIN Partials :
          ( /\ SuppliesKnownPreset(Partials[pn])
            /\ \A k \in TupleFields :
                  /\ Has(Partials[pn], k)
                  /\ Partials[pn][k] = PRESETS[Partials[pn].preset][k]
            /\ UpdateSettings(pn) )
          => settings'.preset = Partials[pn].preset]_vars

\* updateSettings carried the heavy tuple and name over switched-off,
\* edited settings
C5_Witness ==
    /\ outcome = "done"
    /\ store = settings
    /\ settings.preset = "heavy"
    /\ settings.ratio = 10
    /\ ~settings.enabled
    /\ settings.preGain = 5

ProcessingWired ==
    /\ <<Node(nodes, "source"), Node(nodes, "inputAnalyser")>> \in conn
    /\ <<Node(nodes, "outputAnalyser"), Destination>> \in conn
    /\ <<Node(nodes, "source"), Destination>> \notin conn

\* C6: a command that sets settings.preset to a named preset (applyPreset
\* with a known name, updateSettings carrying that name) sets in the same
\* step the preset's full tuple and enabled = true and routes the bound graph
\* to processing.
C6_PresetAppliedWhole ==
    [][( \/ \E name \in KnownPresets : ApplyPreset(name)
         \/ \E pn \in DOMAIN Partials :
               UpdateSettings(pn) /\ SuppliesKnownPreset(Partials[pn]) )
       => /\ settings'.preset \in KnownPresets
          /\ \A k \in TupleFields : settings'[k] = PRESETS[settings'.preset][k]
          /\ settings'.enabled = TRUE
          /\ (nodes' # NoNodes => ProcessingWired')]_vars

\* C7: applyPreset with a name other than light, medium and heavy changes
\* neither settings, wiring, node parameters, auto-gain state nor the Store,
\* and answers with the settings.
C7_UnknownPresetNoOp ==
    [][\A name \in PresetNames \ KnownPresets :
          ApplyPreset(name) =>
            /\ UNCHANGED <<settings, store, conn, params, autoGainValue, rmsHistory>>
            /\ outcome' = "done"]_vars

\* C8: in every session state updateSettings, applyPreset with a known name
\* and resetSettings run to completion and answer with the settings.
C8_CommandsAnswer ==
    [][( \/ ResetSettings
         \/ \E pn \in DOMAIN Partials : UpdateSettings(pn)
         \/ \E name \in KnownPresets : ApplyPreset(name) )
       => outcome' = "done"]_vars

\* C9: after a bind that failed because the source gave no audio tap, no
\* graph is active: isActive is false, nothing is wired to the destination
\* and no tick loop is scheduled.
C9_FailedBindLeavesUnbound ==
    outcome = "failed" =>
        /\ ~IsActive
        /\ \A e \in conn : e[2] # Destination
        /\ timers = {}

\* C10: after a successful bind every connection of the previous stage set
\* is released: whatever reaches the destination belongs to the newly bound
\* graph.
C10_RebindReleasesPrevious ==
    outcome = "built" =>
        \A e \in conn : e[2] = Destination => e[1][1] = nodes

\* C11: in every reachable state at most one metering tick loop is
\* scheduled: the scheduled intervals are none when no loop is recorded and
\* exactly the recorded one otherwise, so every start has cancelled the loop
\* before it.
C11_AtMostOneTickLoop ==
    /\ Cardinality(timers) <= 1
    /\ metering = NoTimer => timers = {}
    /\ metering # NoTimer => timers = {metering}

\* a second graph was built while the first one's loop was running: the
\* first graph's edges are still there and only the second loop is scheduled
C11_Witness ==
    /\ outcome = "built"
    /\ nodes = "v2"
    /\ \E e \in conn : e[1][1] = "v1"
    /\ timers = {"v2"}

\* C12: a bind called for the source of the bind before it rebuilds
\* nothing: the stage set, the wiring, the stage parameters, the tick loop,
\* the rolling window and autoGainValue are what they were.  The bind before
\* left currentVideo = v; the second one arrives from tryAttach or from the
\* canplay listener.
C12_RepeatedBindIsNoOp ==
    [][\A v \in Videos :
          ( /\ currentVideo = v
            /\ \/ CanPlay(v)
               \/ \E ready \in BOOLEAN : TryAttach(v, ready) )
          => UNCHANGED <<audioCtx, nodes, claimed, conn, params, metering,
                         timers, rmsHistory, autoGainValue>>]_vars

\* v1 is bound and its loop has filled the window and moved the gain, and
\* the canplay listener registered for v1 earlier is still to call the bind
\* a second time
C12_Witness ==
    /\ currentVideo = "v1"
    /\ nodes = "v1"
    /\ "v1" \in pending
    /\ rmsHistory # <<>>
    /\ autoGainValue # 0

\* the connections that start at a stage of graph g
EdgesOf(g) == {e \in conn : e[1][1] = g}

\* the full processing chain of graph g: source, input meter, pre-gain,
\* auto-gain, compressor, makeup-gain, limiter, output meter, destination
ProcessingChain(g) ==
    LET order == <<"source", "inputAnalyser", "preGain", "autoGain",
                   "compressor", "makeupGain", "limiter", "outputAnalyser">>
    IN  { <<Node(g, order[i]), Node(g, order[i + 1])>> : i \in 1..7 }
            \cup { <<Node(g, order[8]), Destination>> }

\* the single bypass edge of graph g
BypassEdge(g) == { <<Node(g, "source"), Destination>> }

\* C13: while a graph is bound, the connections among its source, its
\* stages and the destination are exactly the processing chain or exactly
\* the bypass edge: never both, never an edge left over from the other mode.
C13_OneWiringAtATime ==
    nodes # NoNodes =>
        \/ EdgesOf(nodes) = ProcessingChain(nodes)
        \/ EdgesOf(nodes) = BypassEdge(nodes)

\* the bound graph is in bypass and its window holds samples, which only a
\* tick in processing wiring pushes: the graph went from processing to bypass
C13_Witness ==
    /\ nodes # NoNodes
    /\ EdgesOf(nodes) = BypassEdge(nodes)
    /\ rmsHistory # <<>>

\* distance of autoGainValue from +10 dB, in hundredths of a dB
DistanceFromTen == IF autoGainValue <= 1000 THEN 1000 - autoGainValue
                   ELSE autoGainValue - 1000

\* C14: with enabled and autoGain on and the input held at targetLevel - 10
\* dB, every tick leaves autoGainValue no farther from +10 dB than before and
\* closes at least 8% of the distance, less one unit of the arithmetic; the
\* value stays within [-24, +24] dB; and a run that has started ticking
\* brings the value to within the arithmetic's resolution of +10 dB (8% of
\* what remains is under one hundredth of a dB once the value is 9.88 dB).
C14_ConvergesToTen ==
    /\ [][ConstantInputTick =>
            /\ DistanceFromTen' <= DistanceFromTen
            /\ DistanceFromTen' * 100 < DistanceFromTen * 92 + 100
            /\ autoGainValue <= autoGainValue'
            /\ autoGainValue' >= -2400 /\ autoGainValue' <= 2400]_vars
    /\ (nticks > 0) ~> (autoGainValue >= 988 /\ autoGainValue <= 1000)

\* the run has filled the window, shifted it, and brought the value to
\* where 8% of the remaining distance is under one unit of the arithmetic
C14_Witness ==
    /\ nticks > RMS_HISTORY_LEN
    /\ Len(rmsHistory) = RMS_HISTORY_LEN
    /\ autoGainValue > 0
    /\ DistanceFromTen * 8 < 100

C16_AutoGainOffResets ==
    [][( /\ nodes # NoNodes
         /\ settings.autoGain
         /\ ~settings'.autoGain )
       => /\ rmsHistory' = <<>>
          /\ autoGainValue' = 0
          /\ params'.autoGainTarget = Unity]_vars

\* C17: whenever a graph is bound its wiring mode is decided by
\* settings.enabled alone: it is in processing wiring if and only if
\* settings.enabled, and in bypass wiring otherwise, after every bind, rebind,
\* updateSettings, applyPreset and resetSettings.
C17_WiringFollowsEnabled ==
    nodes # NoNodes =>
        IF settings.enabled = TRUE
        THEN EdgesOf(nodes) = ProcessingChain(nodes)
        ELSE EdgesOf(nodes) = BypassEdge(nodes)

\* a bound graph in bypass whose settings were last changed by an
\* updateSettings that carried a preset and no enabled field
C17_Witness ==
    /\ nodes # NoNodes
    /\ settings.enabled = FALSE
    /\ settings.preset = "heavy"
    /\ EdgesOf(nodes) = BypassEdge(nodes)
    /\ outcome = "done"

\* C18: autoGainValue lies in [-24, +24] dB in every reachable state, for
\* every sequence of binds, ticks and settings commands, target levels
\* outside the documented range included.
C18_AutoGainWithinClamp ==
    /\ autoGainValue >= -2400
    /\ autoGainValue <= 2400

\* the clamp has acted: with a target level outside the documented range the
\* smoothing step passed the bound and the value sits on it
C18_Witness ==
    /\ nticks > 0
    /\ rmsHistory # <<>>
    /\ \/ autoGainValue = 2400 /\ settings.targetLevel > -6
       \/ autoGainValue = -2400 /\ settings.targetLevel < -24

\* C19: whenever a graph is bound, the stage parameters a tick can observe
\* are those of the current settings record taken whole: compressor
\* threshold, ratio and knee, attack and release in seconds, makeup and
\* pre-gain as linear amplitude, and the limiter threshold.  No state lies
\* between a settings change and its application to the stages.
C19_ParamsMatchSettings ==
    nodes # NoNodes =>
        /\ params.threshold = settings.threshold
        /\ params.ratio = settings.ratio
        /\ params.knee = settings.knee
        /\ params.attack = msToSeconds(settings.attack)
        /\ params.release = msToSeconds(settings.release)
        /\ params.makeupGain = dBtoLinear(settings.makeupGain * 100)
        /\ params.preGain = dBtoLinear(settings.preGain * 100)
        /\ params.limiterThreshold = settings.limiterThreshold

\* a tick has run on a bound graph whose settings were edited away from the
\* defaults: the stages carry the edited limiter threshold and pre-gain
C19_Witness ==
    /\ nodes # NoNodes
    /\ nticks > 0
    /\ settings.limiterThreshold = -3
    /\ params.limiterThreshold = -3
    /\ params.preGain = dBtoLinear(500)

\* C20: a bind on a source that can give an audio tap and is not the one
\* of the bind before succeeds from every reachable state, the states that
\* follow a failed bind included: the session is bound to that source and
\* active, wired by settings.enabled, with exactly one tick loop, that of the
\* new graph, and with autoGainValue and the rolling window reset.
C20_BindAfterFailureSucceeds ==
    [][\A v \in Videos :
          ( /\ v \notin claimed
            /\ v # currentVideo
            /\ \/ CanPlay(v)
               \/ TryAttach(v, TRUE)
               \/ LoadDone(v, TRUE) )
          => /\ outcome' = "built"
             /\ nodes' = v
             /\ IsActive'
             /\ IF settings'.enabled = TRUE
                THEN EdgesOf(v)' = ProcessingChain(v)
                ELSE EdgesOf(v)' = BypassEdge(v)
             /\ timers' = {v}
             /\ metering' = v
             /\ autoGainValue' = 0
             /\ rmsHistory' = <<>>]_vars

\* a bind has just failed on a source that gives no audio tap, with no graph
\* bound, and a different source that can give one is there to bind
C20_Witness ==
    /\ outcome = "failed"
    /\ nodes = NoNodes
    /\ currentVideo = "v1"
    /\ "v2" \notin claimed
    /\ loaded

\* C21: a settings change handled while the initial storage load is in
\* flight is not lost.  The Store differs from what the load read exactly
\* when a command has written to it since; when the load then completes,
\* settings are still what that command left and equal the record it wrote.
C21_ChangeDuringLoadKept ==
    [][( /\ ~loaded
         /\ store # loadRes
         /\ \E f \in Found \cup {<<NoVideo, FALSE>>} : LoadDone(f[1], f[2]) )
       => /\ settings' = settings
          /\ settings' = store']_vars

\* C22: from every prior state an updateSettings whose partial carries no
\* preset field leaves settings.preset = 'custom': a partial that only
\* switches enabled or autoGain, and the popup's toggles, which send every
\* tunable value as it stands, equal to the active preset's, with one switch
\* flipped.
C22_NoPresetFieldMeansCustom ==
    [][( \/ PopupToggleEnabled
         \/ PopupToggleAutoGain
         \/ \E pn \in BarePartials :
               ~Has(Partials[pn], "preset") /\ UpdateSettings(pn) )
       => settings'.preset = "custom"]_vars

\* the heavy preset was applied and an updateSettings without a preset
\* field, the popup's enable toggle or the bare {enabled: false}, switched
\* the processing off: every value is still heavy's and the name is 'custom'
C22_Witness ==
    /\ settings.preset = "custom"
    /\ \A k \in TupleFields : settings[k] = PRESETS.heavy[k]
    /\ settings.enabled = FALSE
    /\ store = settings

=============================================================================
